---- MODULE Spec2Model ----
(***************************************************************************)
(* Model of the A/B testing platform.  First the traffic-splitting         *)
(* allocator: SplittingService (splitting/splitting_service.py), its       *)
(* add_experiment and process_user operations, and the __main__ checks of  *)
(* that file.  Then the statistics service: ExperimentsService             *)
(* (experiments/experiments_service.py) and experiments_tools.get_mde.     *)
(*                                                                         *)
(* Python lists are TLA+ sequences.  Bucket indices are 0-based as in the  *)
(* source: bucket id_bucket is buckets[id_bucket + 1].                     *)
(***************************************************************************)
EXTENDS Integers, Sequences, FiniteSets, TLC

VARIABLES
    buckets_count,      \* self.buckets_count
    bucket_salt,        \* self.bucket_salt
    buckets,            \* self.buckets : list[list[int]]
    id2experiment,      \* self.id2experiment : dict[int, Experiment]
    fresh,              \* TRUE iff constructed without buckets / id2experiment
    call,               \* the last call made on the service (operation, argument)
    ret,                \* what that call returned (or the exception it raised)
    n_calls,            \* number of add_experiment calls made so far
    added_experiments,  \* the experiments accepted so far, in order (__main__, l.159)
    experiments,        \* __main__: the list of experiments the test submits (l.150-155)
    answers,            \* the success flags of the calls made so far (l.162)
    threads,            \* concurrent callers of add_experiment: their frames
    serialized,         \* TRUE iff callers hold a mutex around add_experiment
    pc,                 \* _estimate_errors: where the running call stands
    group_generator,    \* _create_group_generator: items of range(n_iter) left
    pvalues_aa,         \* _estimate_errors: the list pvalues_aa
    pvalues_ab,         \* _estimate_errors: the list pvalues_ab
    trials,             \* the p-values each turn of the loop computed, in order
    tested              \* the arrays the two get_pvalue calls of a turn received (TrialTested)

svc == <<buckets_count, bucket_salt, buckets, id2experiment>>
est == <<pc, group_generator, pvalues_aa, pvalues_ab, trials, tested>>
vars == <<buckets_count, bucket_salt, buckets, id2experiment, fresh, call, ret,
          n_calls, added_experiments, experiments, answers, threads, serialized,
          pc, group_generator, pvalues_aa, pvalues_ab, trials, tested>>

(***************************************************************************)
(* Bounds of the model.                                                    *)
(***************************************************************************)
MaxBuckets == 2     \* buckets_count of a service constructed without a table: 0..MaxBuckets
MaxCalls == 2       \* add_experiment calls in one behaviour
MaxConflicts == 1   \* length of an experiment's conflicts list

ExpIds == {1, 2}    \* the ids of the experiments submitted to add_experiment
UserIds == {"0", "1", "5", "13"}

SetOf(list) == {list[k] : k \in DOMAIN list}

\* conflicts lists: strictly increasing lists of ids (the code reads a
\* conflicts list only through set(conflicts)).
ConflictLists ==
    {c \in UNION {[1..k -> ExpIds] : k \in 0..MaxConflicts} :
        \A a, b \in DOMAIN c : a < b => c[a] < c[b]}

\* class Experiment(BaseModel), with salt at its default ''.
Experiment(id_exp, salt, n, conflicts) ==
    [id_exp |-> id_exp, salt |-> salt, buckets_count |-> n, conflicts |-> conflicts]

Experiments ==
    {Experiment(i, "", n, c) : i \in ExpIds, n \in 0..MaxBuckets, c \in ConflictLists}
        \cup {Experiment(1, "1", 0, <<>>)}

None == [none |-> TRUE]
EmptyDict == [k \in {} |-> None]

(***************************************************************************)
(* hashlib.md5(s.encode()).hexdigest() read as a base-16 integer, reduced  *)
(* modulo 2520 = lcm(1..10), so that md5_int(s) % n equals the code's      *)
(* int(hash_value, 16) % n for every n in 1..10.  The table holds the true *)
(* digests of the strings the model hashes.                                *)
(***************************************************************************)
md5_int(s) ==
    CASE s = "0" -> 490      [] s = "0a2N4" -> 928   [] s = "00" -> 1819  [] s = "01" -> 1699
      [] s = "1" -> 2011     [] s = "1a2N4" -> 2352  [] s = "10" -> 1224  [] s = "11" -> 890
      [] s = "5" -> 213      [] s = "5a2N4" -> 1821  [] s = "50" -> 434   [] s = "51" -> 376
      [] s = "13" -> 1073    [] s = "13a2N4" -> 780  [] s = "130" -> 582  [] s = "131" -> 2141

\* SplittingService._get_hash_id
_get_hash_id(user_id, salt, n_buckets) == md5_int(user_id \o salt) % n_buckets

(***************************************************************************)
(* add_experiment, l.70-76: the buckets available to the experiment, as    *)
(* (id_bucket, len(bucket)) pairs in bucket order.                         *)
(***************************************************************************)
\* (mutant: the conflict test dropped, every bucket is available)
is_conflict_ignored(conflicts, bucket) == FALSE

\* (mutant: only the last id of the bucket is tested against the conflicts)
is_conflict_last(conflicts, bucket) ==
    bucket # <<>> /\ bucket[Len(bucket)] \in SetOf(conflicts)

is_conflict(conflicts, bucket) == SetOf(conflicts) \cap SetOf(bucket) # {}

RECURSIVE scan_buckets(_, _, _)
scan_buckets(bs, conflicts, k) ==
    IF k > Len(bs) THEN <<>>
    ELSE (IF is_conflict(conflicts, bs[k]) THEN <<>> ELSE << <<k - 1, Len(bs[k])>> >>)
         \o scan_buckets(bs, conflicts, k + 1)

correct_buckets(bs, conflicts) == scan_buckets(bs, conflicts, 1)

\* (mutant: <= for <, an experiment that needs every available bucket is refused)
not_enough_inclusive(correct, n) == Len(correct) <= n

\* l.78: the capacity test
not_enough(correct, n) == Len(correct) < n

(***************************************************************************)
(* l.82-84: sorted(correct_buckets, key=lambda x: x[1], reverse=True).     *)
(* Python's sort is stable, also under reverse=True: pairs of equal load   *)
(* keep their bucket order.                                                *)
(***************************************************************************)
\* (mutant: reverse=True forgotten, the least loaded buckets first)
goes_before_ascending(x, y) == x[2] <= y[2]

\* (mutant: sorted ascending and then reversed, pairs of equal load end in
\* reverse bucket order)
goes_before_reversed(x, y) == x[2] > y[2]

goes_before(x, y) == x[2] >= y[2]

RECURSIVE insert_sorted(_, _)
insert_sorted(x, s) ==
    IF s = <<>> THEN <<x>>
    ELSE IF goes_before(s[1], x) THEN <<s[1]>> \o insert_sorted(x, Tail(s))
    ELSE <<x>> \o s

RECURSIVE sort_from(_, _)
sort_from(s, acc) ==
    IF s = <<>> THEN acc ELSE sort_from(Tail(s), insert_sorted(s[1], acc))

sort_correct_buckets(correct) == sort_from(correct, <<>>)

\* (mutant: the experiment id put at the front of each chosen bucket)
RECURSIVE append_to_front(_, _, _, _)
append_to_front(bs, sorted, n, id_exp) ==
    IF n <= 0 THEN bs
    ELSE LET b == sorted[1][1] + 1
         IN append_to_front([bs EXCEPT ![b] = <<id_exp>> \o @], Tail(sorted), n - 1, id_exp)

\* (mutant: each placement opens a new bucket at the end of the table)
RECURSIVE append_to_new_bucket(_, _, _, _)
append_to_new_bucket(bs, sorted, n, id_exp) ==
    IF n <= 0 THEN bs
    ELSE append_to_new_bucket(Append(bs, <<id_exp>>), Tail(sorted), n - 1, id_exp)

\* (mutant: the id appended to every available bucket, not to the first n)
RECURSIVE append_to_all_available(_, _, _, _)
append_to_all_available(bs, sorted, n, id_exp) ==
    IF sorted = <<>> THEN bs
    ELSE LET b == sorted[1][1] + 1
         IN append_to_all_available([bs EXCEPT ![b] = Append(@, id_exp)], Tail(sorted),
                                    n - 1, id_exp)

\* l.85-87: the experiment id appended to the first n buckets of the sorted list
RECURSIVE append_to(_, _, _, _)
append_to(bs, sorted, n, id_exp) ==
    IF n <= 0 THEN bs
    ELSE LET b == sorted[1][1] + 1
         IN append_to([bs EXCEPT ![b] = Append(@, id_exp)], Tail(sorted), n - 1, id_exp)

\* (mutant: the capacity test made after the appends, so that a rejected
\* experiment stays in the buckets that were available)
add_experiment_check_late(bs, experiment) ==
    LET correct == correct_buckets(bs, experiment.conflicts)
        n == IF not_enough(correct, experiment.buckets_count)
             THEN Len(correct) ELSE experiment.buckets_count
    IN [success |-> ~not_enough(correct, experiment.buckets_count),
        buckets |-> append_to(bs, sort_correct_buckets(correct), n, experiment.id_exp)]

\* (mutant: a bucket is also refused when one of the accepted experiments it
\* hosts lists the new id in its own conflicts)
add_experiment_two_way(bs, experiment) ==
    LET objecting == {added_experiments[k].id_exp :
                         k \in {j \in DOMAIN added_experiments :
                                   experiment.id_exp \in SetOf(added_experiments[j].conflicts)}}
        agreed(pair) == SetOf(bs[pair[1] + 1]) \cap objecting = {}
        correct == SelectSeq(correct_buckets(bs, experiment.conflicts), agreed)
    IN IF not_enough(correct, experiment.buckets_count)
       THEN [success |-> FALSE, buckets |-> bs]
       ELSE [success |-> TRUE,
             buckets |-> append_to(bs, sort_correct_buckets(correct),
                                   experiment.buckets_count, experiment.id_exp)]

\* the whole of add_experiment as a function of the bucket table: (success, buckets)
add_experiment(bs, experiment) ==
    LET correct == correct_buckets(bs, experiment.conflicts)
    IN IF not_enough(correct, experiment.buckets_count)
       THEN [success |-> FALSE, buckets |-> bs]
       ELSE [success |-> TRUE,
             buckets |-> append_to(bs, sort_correct_buckets(correct),
                                   experiment.buckets_count, experiment.id_exp)]

(***************************************************************************)
(* process_user, l.121-134.  The result is the returned pair, or the       *)
(* exception raised: ZeroDivisionError for the modulo of l.104 when        *)
(* buckets_count is 0, IndexError for self.buckets[bucket_id], KeyError    *)
(* for self.id2experiment[id_exp].                                         *)
(***************************************************************************)
\* (mutant: the experiment's buckets_count taken for its salt)
CountAsSalt(n) == IF n = 0 THEN "0" ELSE IF n = 1 THEN "1" ELSE ""
group_of_by_count(user_id, experiment) ==
    IF _get_hash_id(user_id, CountAsSalt(experiment.buckets_count), 2) = 0 THEN "A" ELSE "B"

\* (mutant: the two groups swapped)
group_of_swapped(user_id, experiment) ==
    IF _get_hash_id(user_id, experiment.salt, 2) = 0 THEN "B" ELSE "A"

\* l.130-131
group_of(user_id, experiment) ==
    IF _get_hash_id(user_id, experiment.salt, 2) = 0 THEN "A" ELSE "B"

RECURSIVE user_groups(_, _, _)
user_groups(bucket, i2e, user_id) ==
    IF bucket = <<>> THEN <<>>
    ELSE << <<bucket[1], group_of(user_id, i2e[bucket[1]])>> >>
         \o user_groups(Tail(bucket), i2e, user_id)

process_user(bs, salt, n, i2e, user_id) ==
    LET bucket_id == _get_hash_id(user_id, salt, n)
    IN IF n = 0
       THEN [raised |-> "ZeroDivisionError"]
       ELSE IF bucket_id >= Len(bs)
       THEN [raised |-> "IndexError"]
       ELSE IF \E k \in DOMAIN bs[bucket_id + 1] : bs[bucket_id + 1][k] \notin DOMAIN i2e
       THEN [raised |-> "KeyError"]
       ELSE [raised |-> "", bucket_id |-> bucket_id,
             user_groups |-> user_groups(bs[bucket_id + 1], i2e, user_id)]

(***************************************************************************)
(* Construction, SplittingService.__init__.                                *)
(***************************************************************************)
\* l.42-52: buckets_count and bucket_salt are stored as given; a table or a
\* map that is None or empty is replaced by buckets_count empty buckets, by
\* the empty map (None is the empty list, the empty map here: `if buckets:`
\* and `if id2experiment:` take None and the empty value alike).  The
\* length of a given table is not compared with buckets_count.
InitService(n, salt, given_buckets, given_id2experiment) ==
    /\ buckets_count = n
    /\ bucket_salt = salt
    /\ buckets = IF given_buckets # <<>> THEN given_buckets ELSE [k \in 1..n |-> <<>>]
    /\ id2experiment = IF given_id2experiment # EmptyDict THEN given_id2experiment
                       ELSE EmptyDict
    /\ fresh = (given_buckets = <<>> /\ given_id2experiment = EmptyDict)

\* __init__ with buckets=None, id2experiment=None
InitFresh(n, salt) == InitService(n, salt, <<>>, EmptyDict)

\* __main__, l.171-180: the service constructed over a given table and map
TestBuckets == << <<0, 1>>, <<1>>, <<>>, <<>> >>
TestId2Experiment == (0 :> Experiment(0, "0", 0, <<>>)) @@ (1 :> Experiment(1, "1", 0, <<>>))

\* the constructor calls of the model, <<buckets_count, bucket_salt, buckets,
\* id2experiment>>: no table and no map for 0..MaxBuckets buckets, the call
\* of __main__, a table shorter than buckets_count, a table without a map,
\* a map without a table
Constructions ==
    {<<n, "", <<>>, EmptyDict>> : n \in 0..MaxBuckets}
        \cup {<<Len(TestBuckets), "a2N4", TestBuckets, TestId2Experiment>>,
              <<3, "", << <<1>> >>, (1 :> Experiment(1, "", 0, <<>>))>>,
              <<2, "", << <<1>>, <<>> >>, EmptyDict>>,
              <<2, "", <<>>, (1 :> Experiment(1, "1", 0, <<>>))>>}

NoCall == [op |-> "none"]

\* no turn of the loop has run
NoTrial == [aa |-> <<>>, ab |-> <<>>]

\* no estimate_errors call is running
NoEstimator ==
    /\ pc = "idle"
    /\ group_generator = 0
    /\ pvalues_aa = <<>>
    /\ pvalues_ab = <<>>
    /\ trials = <<>>
    /\ tested = NoTrial

Init ==
    /\ \E c \in Constructions : InitService(c[1], c[2], c[3], c[4])
    /\ NoEstimator
    /\ call = NoCall
    /\ ret = NoCall
    /\ n_calls = 0
    /\ added_experiments = <<>>
    /\ experiments = <<>>
    /\ answers = <<>>
    /\ threads = <<>>
    /\ serialized = TRUE

(***************************************************************************)
(* The operations of the service, each call one atomic step.               *)
(***************************************************************************)
\* (mutant: an accepted experiment's salt becomes the salt of the buckets)
AddExperiment_resalting(experiment) ==
    /\ n_calls < MaxCalls
    /\ LET r == add_experiment(buckets, experiment)
       IN /\ buckets' = r.buckets
          /\ bucket_salt' = IF r.success THEN experiment.salt ELSE bucket_salt
          /\ ret' = [op |-> "add_experiment", success |-> r.success, buckets |-> r.buckets]
          /\ added_experiments' = IF r.success THEN Append(added_experiments, experiment)
                                  ELSE added_experiments
    /\ call' = [op |-> "add_experiment", experiment |-> experiment]
    /\ n_calls' = n_calls + 1
    /\ UNCHANGED <<est, buckets_count, id2experiment, fresh,
                   experiments, answers, threads, serialized>>

AddExperiment(experiment) ==
    /\ n_calls < MaxCalls
    /\ LET r == add_experiment(buckets, experiment)
       IN /\ buckets' = r.buckets
          /\ ret' = [op |-> "add_experiment", success |-> r.success, buckets |-> r.buckets]
          /\ added_experiments' = IF r.success THEN Append(added_experiments, experiment)
                                  ELSE added_experiments
    /\ call' = [op |-> "add_experiment", experiment |-> experiment]
    /\ n_calls' = n_calls + 1
    /\ UNCHANGED <<est, buckets_count, bucket_salt, id2experiment, fresh,
                   experiments, answers, threads, serialized>>

\* (mutant: process_user registers the ids it does not know, instead of failing)
ProcessUser_registering(user_id) ==
    LET bucket_id == _get_hash_id(user_id, bucket_salt, buckets_count)
        bucket == IF buckets_count = 0 THEN <<>>
                  ELSE IF bucket_id >= Len(buckets) THEN <<>>
                  ELSE buckets[bucket_id + 1]
        missing == {id \in SetOf(bucket) : id \notin DOMAIN id2experiment}
        i2e == [id \in DOMAIN id2experiment \cup missing |->
                   IF id \in missing THEN Experiment(id, "", 0, <<>>) ELSE id2experiment[id]]
    IN /\ call' = [op |-> "process_user", user_id |-> user_id]
       /\ id2experiment' = i2e
       /\ ret' = [op |-> "process_user",
                  result |-> process_user(buckets, bucket_salt, buckets_count, i2e, user_id)]
       /\ UNCHANGED <<est, buckets_count, bucket_salt, buckets, fresh, n_calls,
                      added_experiments, experiments, answers, threads, serialized>>

ProcessUser(user_id) ==
    /\ call' = [op |-> "process_user", user_id |-> user_id]
    /\ ret' = [op |-> "process_user",
               result |-> process_user(buckets, bucket_salt, buckets_count,
                                       id2experiment, user_id)]
    /\ UNCHANGED <<est, buckets_count, bucket_salt, buckets, id2experiment, fresh, n_calls,
                   added_experiments, experiments, answers, threads, serialized>>

Next ==
    \/ \E experiment \in Experiments : AddExperiment(experiment)
    \/ \E user_id \in UserIds : ProcessUser(user_id)

Spec == Init /\ [][Next]_vars

(***************************************************************************)
(* check_correct_buckets, l.137-145: the two assertions of the __main__    *)
(* test, for one experiment and for a list of them.                        *)
(***************************************************************************)
buckets_with_exp(bs, experiment) ==
    SelectSeq(bs, LAMBDA b : experiment.id_exp \in SetOf(b))

parallel_experiments(bs, experiment) ==
    UNION {SetOf(b) : b \in SetOf(buckets_with_exp(bs, experiment))}

count_is_correct(bs, experiment) ==
    experiment.buckets_count = Len(buckets_with_exp(bs, experiment))

conflicts_are_apart(bs, experiment) ==
    SetOf(experiment.conflicts) \cap parallel_experiments(bs, experiment) = {}

check_correct_buckets(bs, exps) ==
    \A k \in DOMAIN exps : count_is_correct(bs, exps[k]) /\ conflicts_are_apart(bs, exps[k])

(***************************************************************************)
(* The __main__ test of the allocator, l.148-168: a fresh service of four  *)
(* buckets, the experiments of a list submitted in order, the success      *)
(* flags collected and asserted.  The list is the test's own or any other  *)
(* list over the test's four experiments.                                  *)
(***************************************************************************)
MaxTestLen == 4     \* length of the list of experiments the test submits

TestExperiments ==
    << Experiment(1, "", 4, <<4>>), Experiment(2, "", 2, <<3>>),
       Experiment(3, "", 2, <<2>>), Experiment(4, "", 1, <<1>>) >>

ideal_answers == <<TRUE, TRUE, TRUE, FALSE>>

TestLists ==
    UNION {[1..k -> SetOf(TestExperiments)] : k \in 1..MaxTestLen}

InitTest ==
    /\ InitFresh(4, "")
    /\ NoEstimator
    /\ experiments \in TestLists
    /\ answers = <<>>
    /\ call = NoCall
    /\ ret = NoCall
    /\ n_calls = 0
    /\ added_experiments = <<>>
    /\ threads = <<>>
    /\ serialized = TRUE

\* the assertions of the turns made so far have held: l.163 on every flag,
\* l.167 on the table and the accepted experiments the last turn left
AssertionsHeld ==
    /\ \A k \in DOMAIN answers : k \in DOMAIN ideal_answers /\ answers[k] = ideal_answers[k]
    /\ check_correct_buckets(buckets, added_experiments)

\* one turn of the loop of l.160-167.  zip ends the loop with the shorter
\* of the two lists, a failed assertion ends the script: the turn is made
\* only after turns whose assertions held.  The call of l.162 is made
\* before the assertion of l.163, which stands before the append of
\* l.165-166.
TestStep ==
    /\ n_calls < Len(experiments)
    /\ n_calls < Len(ideal_answers)
    /\ AssertionsHeld
    /\ LET experiment == experiments[n_calls + 1]
           ideal_answer == ideal_answers[n_calls + 1]
           r == add_experiment(buckets, experiment)
       IN /\ buckets' = r.buckets
          /\ ret' = [op |-> "add_experiment", success |-> r.success, buckets |-> r.buckets]
          /\ call' = [op |-> "add_experiment", experiment |-> experiment]
          /\ answers' = Append(answers, r.success)
          /\ added_experiments' = IF r.success = ideal_answer /\ r.success
                                  THEN Append(added_experiments, experiment)
                                  ELSE added_experiments
    /\ n_calls' = n_calls + 1
    /\ UNCHANGED <<est, buckets_count, bucket_salt, id2experiment, fresh,
                   experiments, threads, serialized>>

NextTest == TestStep

SpecTest == InitTest /\ [][NextTest]_vars

(***************************************************************************)
(* add_experiment called by a caller that keeps the history of its calls:  *)
(* a fresh service of 4 buckets, any sequence of calls with the test's     *)
(* four experiments, the experiment of every call appended to experiments  *)
(* and its flag to answers.  Nothing is asserted between the calls.        *)
(***************************************************************************)
InitCalls ==
    /\ InitFresh(4, "")
    /\ NoEstimator
    /\ experiments = <<>>
    /\ answers = <<>>
    /\ call = NoCall
    /\ ret = NoCall
    /\ n_calls = 0
    /\ added_experiments = <<>>
    /\ threads = <<>>
    /\ serialized = TRUE

\* one call of add_experiment, l.54-89, and its entry in the history
LoggedCall(experiment) ==
    /\ n_calls < MaxTestLen
    /\ LET r == add_experiment(buckets, experiment)
       IN /\ buckets' = r.buckets
          /\ ret' = [op |-> "add_experiment", success |-> r.success, buckets |-> r.buckets]
          /\ call' = [op |-> "add_experiment", experiment |-> experiment]
          /\ answers' = Append(answers, r.success)
          /\ added_experiments' = IF r.success THEN Append(added_experiments, experiment)
                                  ELSE added_experiments
    /\ experiments' = Append(experiments, experiment)
    /\ n_calls' = n_calls + 1
    /\ UNCHANGED <<est, buckets_count, bucket_salt, id2experiment, fresh, threads, serialized>>

NextCalls == \E experiment \in SetOf(TestExperiments) : LoggedCall(experiment)

SpecCalls == InitCalls /\ [][NextCalls]_vars

(***************************************************************************)
(* add_experiment run by concurrent callers.  The method holds no lock:    *)
(* between two of its statements another caller may run, so a call is a    *)
(* sequence of steps over the shared self.buckets, with its locals in a    *)
(* frame:                                                                  *)
(*   scan    l.72-74  take the next bucket, test it against conflicts      *)
(*   record  l.76     append (id_bucket, len(bucket)) to correct_buckets   *)
(*   check   l.78-84  the capacity test and the sort (locals only)         *)
(*   append  l.85-87  one append to self.buckets per step                  *)
(*   return  l.89     the call returns and the caller notes the result     *)
(* With serialized = TRUE the callers take a mutex around the call (the    *)
(* discipline the design asks of them): a call starts only when no other   *)
(* call is in progress.  Field placed of a frame is the caller's record,   *)
(* kept from call to call, of what its calls appended: the pairs           *)
(* <<experiment, id_bucket>> of l.86-87.                                   *)
(***************************************************************************)
MaxThreadCalls == 3     \* add_experiment calls made by the concurrent callers

Threads == {1, 2}

IdleFrame ==
    [pc |-> "idle", experiment |-> None, id_bucket |-> 0, correct_buckets |-> <<>>,
     sort_correct_buckets |-> <<>>, i |-> 0, success |-> FALSE, placed |-> {}]

InProgress(t) == threads[t].pc \notin {"idle", "done"}

InitConc ==
    /\ \E n \in 1..MaxBuckets : InitFresh(n, "")
    /\ NoEstimator
    /\ serialized \in BOOLEAN
    /\ threads = [t \in Threads |-> IdleFrame]
    /\ call = NoCall
    /\ ret = NoCall
    /\ n_calls = 0
    /\ added_experiments = <<>>
    /\ experiments = <<>>
    /\ answers = <<>>

\* the return of a call: the caller notes the experiment if it was accepted
Returned(t, frame, success) ==
    /\ threads' = [threads EXCEPT ![t] = [frame EXCEPT !.pc = "done", !.success = success]]
    /\ ret' = [op |-> "add_experiment", success |-> success, buckets |-> buckets']
    /\ call' = [op |-> "add_experiment", experiment |-> frame.experiment]
    /\ added_experiments' = IF success THEN Append(added_experiments, frame.experiment)
                            ELSE added_experiments

\* l.66-71: the call is entered
ThreadCall(t, experiment) ==
    /\ threads[t].pc \in {"idle", "done"}
    /\ n_calls < MaxThreadCalls
    /\ serialized => \A u \in Threads : ~InProgress(u)
    /\ threads' = [threads EXCEPT ![t] = [IdleFrame EXCEPT !.pc = "scan",
                                                          !.experiment = experiment,
                                                          !.placed = threads[t].placed]]
    /\ n_calls' = n_calls + 1
    /\ UNCHANGED <<est, svc, fresh, call, ret, added_experiments, experiments, answers,
                   serialized>>

AfterBucket(id_bucket) == IF id_bucket + 1 < Len(buckets) THEN "scan" ELSE "check"

\* l.72-74: the next bucket is tested against the conflicts
ThreadScan(t) ==
    LET frame == threads[t]
    IN /\ frame.pc = "scan"
       /\ threads' = [threads EXCEPT ![t] =
             IF is_conflict(frame.experiment.conflicts, buckets[frame.id_bucket + 1])
             THEN [frame EXCEPT !.id_bucket = @ + 1, !.pc = AfterBucket(frame.id_bucket)]
             ELSE [frame EXCEPT !.pc = "record"]]
       /\ UNCHANGED <<est, svc, fresh, call, ret, n_calls, added_experiments, experiments,
                      answers, serialized>>

\* l.76: the bucket and its present length are recorded
ThreadRecord(t) ==
    LET frame == threads[t]
    IN /\ frame.pc = "record"
       /\ threads' = [threads EXCEPT ![t] =
             [frame EXCEPT !.correct_buckets =
                               Append(@, <<frame.id_bucket, Len(buckets[frame.id_bucket + 1])>>),
                           !.id_bucket = @ + 1,
                           !.pc = AfterBucket(frame.id_bucket)]]
       /\ UNCHANGED <<est, svc, fresh, call, ret, n_calls, added_experiments, experiments,
                      answers, serialized>>

\* l.78-85: the capacity test (l.79 returns at once), then the sort; with
\* nothing to append the loop of l.85 is over and l.89 is next
ThreadCheck(t) ==
    LET frame == threads[t]
        n == frame.experiment.buckets_count
    IN /\ frame.pc = "check"
       /\ UNCHANGED <<est, svc, fresh, n_calls, experiments, answers, serialized>>
       /\ IF not_enough(frame.correct_buckets, n)
          THEN Returned(t, frame, FALSE)
          ELSE /\ threads' = [threads EXCEPT ![t] =
                     [frame EXCEPT !.pc = IF n = 0 THEN "return" ELSE "append",
                                   !.sort_correct_buckets =
                                       sort_correct_buckets(frame.correct_buckets)]]
               /\ UNCHANGED <<call, ret, added_experiments>>

\* (mutant: the loop counter i taken for the bucket index)
ThreadAppend_by_position(t) ==
    LET frame == threads[t]
        n == frame.experiment.buckets_count
        appended == [frame EXCEPT !.i = @ + 1,
                                  !.placed = @ \cup {<<frame.experiment, frame.i>>},
                                  !.pc = IF frame.i + 1 = n THEN "return" ELSE "append"]
    IN /\ frame.pc = "append"
       /\ buckets' = [buckets EXCEPT ![frame.i + 1] = Append(@, frame.experiment.id_exp)]
       /\ threads' = [threads EXCEPT ![t] = appended]
       /\ UNCHANGED <<est, buckets_count, bucket_salt, id2experiment, fresh, n_calls,
                      experiments, answers, serialized, call, ret, added_experiments>>

\* l.85-87: one turn of the append loop; after the last one, l.89 is next
ThreadAppend(t) ==
    LET frame == threads[t]
        n == frame.experiment.buckets_count
        id_bucket == frame.sort_correct_buckets[frame.i + 1][1]
        appended == [frame EXCEPT !.i = @ + 1,
                                  !.placed = @ \cup {<<frame.experiment, id_bucket>>},
                                  !.pc = IF frame.i + 1 = n THEN "return" ELSE "append"]
    IN /\ frame.pc = "append"
       /\ buckets' = [buckets EXCEPT ![id_bucket + 1] = Append(@, frame.experiment.id_exp)]
       /\ threads' = [threads EXCEPT ![t] = appended]
       /\ UNCHANGED <<est, buckets_count, bucket_salt, id2experiment, fresh, n_calls,
                      experiments, answers, serialized, call, ret, added_experiments>>

\* l.89: return True, self.buckets
ThreadReturn(t) ==
    LET frame == threads[t]
    IN /\ frame.pc = "return"
       /\ UNCHANGED <<est, svc, fresh, n_calls, experiments, answers, serialized>>
       /\ Returned(t, frame, TRUE)

NextConc ==
    \E t \in Threads :
        \/ \E experiment \in Experiments : ThreadCall(t, experiment)
        \/ ThreadScan(t)
        \/ ThreadRecord(t)
        \/ ThreadCheck(t)
        \/ ThreadAppend(t)
        \/ ThreadReturn(t)

SpecConc == InitConc /\ [][NextConc]_vars

(***************************************************************************)
(* The claims.  Their notions are stated here independently of the         *)
(* operators above.                                                        *)
(***************************************************************************)
\* a bucket is eligible for an experiment iff it hosts none of its conflicts
Eligible(bucket, experiment) ==
    \A k \in DOMAIN bucket : \A c \in DOMAIN experiment.conflicts :
        bucket[k] # experiment.conflicts[c]

EligibleBuckets(bs, experiment) == {k \in DOMAIN bs : Eligible(bs[k], experiment)}

Hosts(bucket, id) == \E k \in DOMAIN bucket : bucket[k] = id

HostingBuckets(bs, id) == {k \in DOMAIN bs : Hosts(bs[k], id)}

IsAddStep == call'.op = "add_experiment" /\ n_calls' = n_calls + 1

\* C1: after any sequence of add_experiment calls on a freshly constructed
\* service, no bucket hosts two accepted experiments one of which lists the
\* other's id in its conflicts.
C1_NoConflictInBucket ==
    fresh =>
        \A b \in DOMAIN buckets : \A i, j \in DOMAIN added_experiments :
            LET e1 == added_experiments[i]
                e2 == added_experiments[j]
            IN (e1.id_exp # e2.id_exp /\ Hosts(buckets[b], e1.id_exp)
                    /\ Hosts(buckets[b], e2.id_exp))
                => \A c \in DOMAIN e2.conflicts : e2.conflicts[c] # e1.id_exp

\* C2: every accepted experiment is hosted in exactly buckets_count buckets,
\* after its own call and after every later call.
C2_AcceptedInOwnCount ==
    fresh =>
        \A i \in DOMAIN added_experiments :
            Cardinality(HostingBuckets(buckets, added_experiments[i].id_exp))
                = added_experiments[i].buckets_count

\* C3: an add_experiment call for which fewer buckets are eligible than the
\* experiment's buckets_count returns success = False (a returned value, no
\* exception) and leaves buckets, id2experiment, bucket_salt and buckets_count
\* as they were.
C3_RejectedLeavesState ==
    [][(IsAddStep /\ Cardinality(EligibleBuckets(buckets, call'.experiment))
                        < call'.experiment.buckets_count)
        => (/\ ret'.op = "add_experiment"
            /\ ret'.success = FALSE
            /\ ret'.buckets = buckets
            /\ buckets' = buckets
            /\ id2experiment' = id2experiment
            /\ bucket_salt' = bucket_salt
            /\ buckets_count' = buckets_count)]_vars

\* a rejection caused by conflicts: the experiment asks for no more buckets
\* than the service has, and some bucket hosts one of its conflicts
C3_Witness ==
    /\ call.op = "add_experiment"
    /\ ret.success = FALSE
    /\ call.experiment.buckets_count <= buckets_count
    /\ EligibleBuckets(buckets, call.experiment) # DOMAIN buckets
    /\ EligibleBuckets(buckets, call.experiment) # {}

\* C4: an add_experiment call for which at least buckets_count buckets are
\* eligible returns success = True and appends the id to exactly buckets_count
\* buckets, all eligible, each of which hosted at least as many experiments
\* as every eligible bucket that was not chosen; the other buckets are
\* unchanged.
C4_AcceptedTakesMostLoaded ==
    [][(IsAddStep /\ Cardinality(EligibleBuckets(buckets, call'.experiment))
                        >= call'.experiment.buckets_count)
        => LET e == call'.experiment
               eligible == EligibleBuckets(buckets, e)
           IN /\ ret'.op = "add_experiment"
              /\ ret'.success = TRUE
              /\ ret'.buckets = buckets'
              /\ DOMAIN buckets' = DOMAIN buckets
              /\ \E chosen \in SUBSET eligible :
                    /\ Cardinality(chosen) = e.buckets_count
                    /\ \A k \in DOMAIN buckets :
                          buckets'[k] = IF k \in chosen THEN buckets[k] \o <<e.id_exp>>
                                        ELSE buckets[k]
                    /\ \A k \in chosen : \A j \in eligible \ chosen :
                          Len(buckets[k]) >= Len(buckets[j])]_vars

\* an accepted first submission that took a bucket strictly more loaded than
\* an eligible bucket it left alone
C4_Witness ==
    /\ call.op = "add_experiment"
    /\ ret.success = TRUE
    /\ Cardinality({i \in DOMAIN added_experiments : added_experiments[i] = call.experiment}) = 1
    /\ \E k, j \in DOMAIN buckets :
          /\ Hosts(buckets[k], call.experiment.id_exp)
          /\ ~Hosts(buckets[j], call.experiment.id_exp)
          /\ Eligible(buckets[j], call.experiment)
          /\ Len(buckets[k]) - 1 > Len(buckets[j])

\* C5: when the test submits its own list (experiments 1..4 in order) to a
\* fresh service of 4 buckets, the success flags are those of
\* [True, True, True, False], and after each step check_correct_buckets
\* passes on the accepted experiments.
C5_ScenarioAnswers ==
    experiments = TestExperiments
        => /\ answers = SubSeq(ideal_answers, 1, n_calls)
           /\ check_correct_buckets(buckets, added_experiments)

\* the whole list submitted, three experiments accepted
C5_Witness ==
    /\ experiments = TestExperiments
    /\ n_calls = 4
    /\ Len(answers) = 4
    /\ Len(added_experiments) = 3

(***************************************************************************)
(* C10: two experiments that each list the other's id in conflicts, and a  *)
(* bucket into which both were placed.                                     *)
(***************************************************************************)
MutualConflict(e1, e2) ==
    /\ e1.id_exp # e2.id_exp
    /\ \E c \in DOMAIN e1.conflicts : e1.conflicts[c] = e2.id_exp
    /\ \E c \in DOMAIN e2.conflicts : e2.conflicts[c] = e1.id_exp

\* the pairs <<experiment, id_bucket>> of the appends made so far: an
\* experiment is in a bucket once a call for it appended its id there (a
\* call still scanning, or refused, has placed nothing)
Placements == UNION {threads[t].placed : t \in Threads}

SharesBucket(e1, e2) ==
    \E id_bucket \in 0..(buckets_count - 1) :
        <<e1, id_bucket>> \in Placements /\ <<e2, id_bucket>> \in Placements

MutualConflictShares ==
    \E e1, e2 \in Experiments : MutualConflict(e1, e2) /\ SharesBucket(e1, e2)

\* C10: when the calls are serialized (each runs as one atomic step), two
\* experiments that each list the other in conflicts never share a bucket;
\* a shared bucket is reached only by calls that are not serialized, both of
\* which finished their scan before either appended.
C10_SerializedKeepsConflictsApart ==
    serialized => ~MutualConflictShares

\* not serialized: both calls finished their scan over the empty table (each
\* recorded every bucket with length 0) before either appended, both were
\* accepted, and the two experiments, each in the other's conflicts, share a
\* bucket
C10_Witness ==
    /\ ~serialized
    /\ \A t \in Threads :
          /\ threads[t].pc = "done"
          /\ threads[t].success = TRUE
          /\ threads[t].correct_buckets = [k \in 1..buckets_count |-> <<k - 1, 0>>]
    /\ MutualConflict(threads[1].experiment, threads[2].experiment)
    /\ SharesBucket(threads[1].experiment, threads[2].experiment)
    /\ MutualConflictShares

\* C11: under any sequence of add_experiment and process_user calls, every
\* bucket keeps what it held: the content of each bucket before a step is a
\* prefix of its content after the step, so an id once hosted stays hosted
\* in the same position.
C11_BucketsOnlyGrow ==
    [][\A k \in DOMAIN buckets :
          /\ k \in DOMAIN buckets'
          /\ Len(buckets'[k]) >= Len(buckets[k])
          /\ SubSeq(buckets'[k], 1, Len(buckets[k])) = buckets[k]]_vars

\* a second experiment was accepted into a bucket that already hosted
\* another one, and the earlier id is still first in that bucket
C11_Witness ==
    /\ fresh
    /\ ret.op = "add_experiment"
    /\ ret.success = TRUE
    /\ Len(added_experiments) = 2
    /\ \E k \in DOMAIN buckets :
          /\ Len(buckets[k]) = 2
          /\ buckets[k][1] = added_experiments[1].id_exp
          /\ buckets[k][2] = added_experiments[2].id_exp
          /\ buckets[k][1] # buckets[k][2]

\* C12: buckets_count and the number of buckets never change under any
\* sequence of calls, and the number of buckets equals buckets_count.
C12_BucketsCountFixed ==
    /\ [](Len(buckets) = buckets_count)
    /\ [][/\ buckets_count' = buckets_count
          /\ Len(buckets') = Len(buckets)]_vars

\* accepted experiments and a process_user call on a table of two buckets
C12_Witness ==
    /\ fresh
    /\ buckets_count = 2
    /\ Len(added_experiments) = 2
    /\ ret.op = "process_user"
    /\ \E k \in DOMAIN buckets : buckets[k] # <<>>

\* C6: on a service constructed fresh and filled by add_experiment calls,
\* process_user returns for every user and yields one (id, group) pair for
\* each id hosted in the user's bucket.
C6_ProcessUserResolvesHosted ==
    (fresh /\ ret.op = "process_user")
        => /\ ret.result.raised = ""
           /\ LET bucket == buckets[ret.result.bucket_id + 1]
                  groups == ret.result.user_groups
              IN /\ Len(groups) = Len(bucket)
                 /\ \A k \in DOMAIN bucket : groups[k][1] = bucket[k]

(***************************************************************************)
(* C7: id-to-experiment maps a service can be constructed over, and what   *)
(* it means for two of them to agree on the salts of the hosted ids.       *)
(***************************************************************************)
OtherExperiments(id) ==
    {Experiment(id, salt, nc[1], nc[2]) :
        salt \in {"0", "1"}, nc \in {<<0, <<>>>>, <<1, <<2>>>>}}

OtherMaps ==
    UNION {{m \in [D -> UNION {OtherExperiments(id) : id \in D}] :
                \A id \in D : m[id].id_exp = id} : D \in SUBSET {0, 1, 2}}

SameHostedSalts(bs, m1, m2) ==
    \A b \in DOMAIN bs : \A k \in DOMAIN bs[b] :
        LET id == bs[b][k]
        IN /\ id \in DOMAIN m1 <=> id \in DOMAIN m2
           /\ id \in DOMAIN m1 => m1[id].salt = m2[id].salt

\* C7: the result of process_user is the same on every service that agrees
\* with this one on bucket_salt, buckets_count, buckets and the salt of each
\* hosted experiment, whatever else its id2experiment holds.
C7_ProcessUserDeterministic ==
    ret.op = "process_user"
        => \A m \in OtherMaps :
              SameHostedSalts(buckets, id2experiment, m)
                  => process_user(buckets, bucket_salt, buckets_count, m, call.user_id)
                        = ret.result

\* a call that returned groups, on a service for which another map with the
\* same hosted salts and other buckets_count, conflicts and entries exists
C7_Witness ==
    /\ ret.op = "process_user"
    /\ ret.result.raised = ""
    /\ Len(ret.result.user_groups) = 2
    /\ \E m \in OtherMaps :
          /\ SameHostedSalts(buckets, id2experiment, m)
          /\ DOMAIN m # DOMAIN id2experiment
          /\ \E id \in DOMAIN m \cap DOMAIN id2experiment :
                m[id].buckets_count # id2experiment[id].buckets_count

\* C8: whenever process_user returns, bucket_id is in [0, buckets_count) and
\* indexes the bucket table, each group is 'A' or 'B', 'A' exactly when the
\* digest of user_id + experiment salt is even, and each returned id is a key
\* of id2experiment.
C8_ProcessUserResultWellFormed ==
    (ret.op = "process_user" /\ ret.result.raised = "")
        => /\ ret.result.bucket_id \in 0..(buckets_count - 1)
           /\ ret.result.bucket_id + 1 \in DOMAIN buckets
           /\ \A k \in DOMAIN ret.result.user_groups :
                 LET id == ret.result.user_groups[k][1]
                     group == ret.result.user_groups[k][2]
                 IN /\ group \in {"A", "B"}
                    /\ id \in DOMAIN id2experiment
                    /\ group = "A" <=>
                          md5_int(call.user_id \o id2experiment[id].salt) % 2 = 0

\* a returned call with an 'A' and a returned call's 'B' are both reachable;
\* this one has two pairs, the first of them 'A'
C8_Witness ==
    /\ ret.op = "process_user"
    /\ ret.result.raised = ""
    /\ Len(ret.result.user_groups) = 2
    /\ ret.result.user_groups[1][2] = "A"
    /\ ret.result.bucket_id = 0

\* C9: a process_user call, returning or failing, leaves buckets,
\* id2experiment, bucket_salt and buckets_count unchanged; they change only in
\* add_experiment calls that return success = True.
C9_ProcessUserReadOnly ==
    [][/\ call'.op = "process_user" => svc' = svc
       /\ svc' # svc => (call'.op = "add_experiment" /\ ret'.success = TRUE)]_vars

\* a process_user call that failed on a service holding accepted experiments
C9_Witness ==
    /\ ret.op = "process_user"
    /\ ret.result.raised = "KeyError"
    /\ added_experiments # <<>>

(***************************************************************************)
(* The statistics service: ExperimentsService                              *)
(* (experiments/experiments_service.py) and experiments_tools.py.          *)
(*                                                                         *)
(* Floats are integers here.  A p-value and design.alpha are in            *)
(* thousandths (1.0 is 1000, alpha = 0.05 is 50); nan is a record apart.   *)
(* Metric values are integers chosen so that every product and quotient    *)
(* the code forms on them is exact.  A numpy array is a record holding its *)
(* number of dimensions and its rows.                                      *)
(*                                                                         *)
(* What scipy computes and what numpy draws at random is an input of the   *)
(* operator that makes the call: argument lib holds the p-value the scipy  *)
(* routine returns on these samples (lib.pvalue) and the summary of the    *)
(* vector of bootstrap statistics that np.random.choice produced           *)
(* (lib.bootstrap_metrics).                                                *)
(***************************************************************************)
StatisticalTests == {"ttest", "utest", "bootstrap", "ztest"}
Stratifications == {"off", "on", "auto"}
CiTypes == {"normal", "percentile", "pivotal", "bca"}
AggFuncs == {"mean", "quantile 95", "median"}

\* l.9-31: class Design with its defaults (alpha 0.05, beta 0.1, effect 5)
Design(statistical_test, stratification, bootstrap_ci_type, bootstrap_agg_func, sample_size) ==
    [statistical_test |-> statistical_test,
     effect |-> 5,
     alpha |-> 50,
     beta |-> 100,
     sample_size |-> sample_size,
     bootstrap_iter |-> 1000,
     bootstrap_ci_type |-> bootstrap_ci_type,
     bootstrap_agg_func |-> bootstrap_agg_func,
     stratification |-> stratification]

\* every test with every stratification, and the bootstrap test with every
\* interval type and every aggregation
DesignsOf(sample_size) ==
    {Design(t, s, "normal", "mean", sample_size) :
        t \in StatisticalTests, s \in Stratifications}
    \cup {Design("bootstrap", "off", c, f, sample_size) :
             c \in CiTypes, f \in AggFuncs}

Array1(values) == [ndim |-> 1, rows |-> values]
Array2(rows) == [ndim |-> 2, rows |-> rows]

\* an exception leaving the call, a value returned by it
Raise(exception) == [raised |-> exception]
Raised(result) == result.raised # ""

RECURSIVE sum(_)
sum(values) == IF values = <<>> THEN 0 ELSE values[1] + sum(Tail(values))

\* ndarray.mean() on the metric values of this model (the quotient is exact)
mean(values) == sum(values) \div Len(values)

RECURSIVE sorted_insert(_, _)
sorted_insert(values, x) ==
    IF values = <<>> THEN <<x>>
    ELSE IF x <= values[1] THEN <<x>> \o values
    ELSE <<values[1]>> \o sorted_insert(Tail(values), x)

RECURSIVE sorted(_)
sorted(values) ==
    IF values = <<>> THEN <<>> ELSE sorted_insert(sorted(Tail(values)), values[1])

\* np.quantile(values, 0.95): linear interpolation between the two order
\* statistics around position 0.95 * (n - 1)
quantile_95(values) ==
    LET s == sorted(values)
        h == 95 * (Len(values) - 1)
        lo == h \div 100 + 1
        hi == IF lo < Len(values) THEN lo + 1 ELSE lo
    IN s[lo] + ((h % 100) * (s[hi] - s[lo])) \div 100

\* a float that is a number (in thousandths when it is a p-value), and nan
Float(v) == [nan |-> FALSE, v |-> v]
nan == [nan |-> TRUE]

\* the p-values scipy may return on a pair of samples
PValues == {Float(0), Float(50), Float(1000), nan}

\* on arrays of shape (n, 2) scipy.stats.mannwhitneyu runs along axis 0 and
\* its p-value is an array with one entry per column
PValueArray(pvalues) == [array |-> pvalues]
PValueArrays == {PValueArray(<<p1, p2>>) : p1 \in PValues, p2 \in PValues}

Min(numbers) == CHOOSE x \in numbers : \A y \in numbers : x <= y
Max(numbers) == CHOOSE x \in numbers : \A y \in numbers : x >= y

\* what is read of a vector of bootstrap statistics whose entries are among
\* values: c_se is norm.ppf(1 - alpha / 2) * np.std(boot_metrics) (l.235-236),
\* q_lo and q_hi are np.quantile(boot_metrics, [alpha / 2, 1 - alpha / 2])
\* (l.252, l.267-268).  The columns are drawn independently, so the vector
\* is any vector of these values.  Its standard deviation lies between 0 (a
\* constant vector) and half the range (half of the entries on either end),
\* so c_se lies between 0 and 1.96 / 2 of the range: here 0, a quarter of
\* the range and that upper end, rounded up (the interval is compared with
\* whole numbers only).  The quantiles are in order and lie on an entry or
\* between two neighbouring ones; an entry stands for the points between it
\* and its neighbour.  A constant vector has equal quantiles, and a vector
\* whose two quantiles are equal has 95 % of its entries on one value, so
\* its c_se is below 0.44 of the range.
SummariesOf(values) ==
    LET range == Max(values) - Min(values)
        c_se_max == (49 * range + 49) \div 50
        c_ses == {0, range \div 4, c_se_max}
    IN {bm \in [c_se : c_ses, q_lo : values, q_hi : values] :
           /\ bm.q_lo <= bm.q_hi
           /\ bm.c_se = 0 => bm.q_lo = bm.q_hi
           /\ (range > 0 /\ bm.c_se = c_se_max) => bm.q_lo < bm.q_hi}

\* the summaries of the vectors handed to _run_bootstrap directly
BootstrapMetrics == SummariesOf({-100, 0, 100})

\* l.201-206: np.random.choice(data, (len(data), bootstrap_iter)) draws with
\* replacement; each of its columns is one of these resamples of data
Resamples(data) == [DOMAIN data -> {data[k] : k \in DOMAIN data}]

\* l.208-209, l.213-216: the statistic of each column of the resampled
\* group two minus that of the resampled group one; every entry of
\* bootstrap_metrics is one of these
BootstrapStatistics(data_one, data_two, bootstrap_agg_func) ==
    LET agg(values) == IF bootstrap_agg_func = "mean" THEN mean(values)
                       ELSE quantile_95(values)
    IN {agg(two) - agg(one) : one \in Resamples(data_one), two \in Resamples(data_two)}

\* l.189-221: the bootstrap statistics and the statistic of the original data
_generate_bootstrap_metrics(data_one, data_two, design, lib) ==
    IF data_one.ndim # 1 \/ data_two.ndim # 1 THEN Raise("ValueError")
    ELSE IF design.bootstrap_agg_func = "mean"
    THEN [raised |-> "",
          bootstrap_metrics |-> lib.bootstrap_metrics,
          pe_metric |-> mean(data_two.rows) - mean(data_one.rows)]
    ELSE IF design.bootstrap_agg_func = "quantile 95"
    THEN [raised |-> "",
          bootstrap_metrics |-> lib.bootstrap_metrics,
          pe_metric |-> quantile_95(data_two.rows) - quantile_95(data_one.rows)]
    ELSE Raise("ValueError")

\* l.223-238
get_ci_bootstrap_normal(boot_metrics, pe_metric, alpha) ==
    <<pe_metric - boot_metrics.c_se, pe_metric + boot_metrics.c_se>>

\* l.240-253
get_ci_bootstrap_percentile(boot_metrics, pe_metric, alpha) ==
    <<boot_metrics.q_lo, boot_metrics.q_hi>>

\* l.255-269: right, left = 2 * pe_metric - quantiles
get_ci_bootstrap_pivotal(boot_metrics, pe_metric, alpha) ==
    <<2 * pe_metric - boot_metrics.q_hi, 2 * pe_metric - boot_metrics.q_lo>>

\* l.271-305: the interval and float(left < 0 < right); raising a str is a
\* TypeError
_run_bootstrap(bootstrap_metrics, pe_metric, design) ==
    IF design.bootstrap_ci_type \notin {"normal", "percentile", "pivotal"}
    THEN Raise("TypeError")
    ELSE LET ci == CASE design.bootstrap_ci_type = "normal" ->
                        get_ci_bootstrap_normal(bootstrap_metrics, pe_metric, design.alpha)
                     [] design.bootstrap_ci_type = "percentile" ->
                        get_ci_bootstrap_percentile(bootstrap_metrics, pe_metric, design.alpha)
                     [] design.bootstrap_ci_type = "pivotal" ->
                        get_ci_bootstrap_pivotal(bootstrap_metrics, pe_metric, design.alpha)
             left == ci[1]
             right == ci[2]
         IN [raised |-> "",
             ci |-> ci,
             pvalue |-> IF left < 0 /\ 0 < right THEN Float(1000) ELSE Float(0)]

(***************************************************************************)
(* The stratified test, l.307-361.  Its means and variances are fractions  *)
(* <<numerator, denominator>> with a positive denominator.                 *)
(***************************************************************************)
Fr(n, d) == <<n, d>>
FrAdd(x, y) == <<x[1] * y[2] + y[1] * x[2], x[2] * y[2]>>
FrSub(x, y) == <<x[1] * y[2] - y[1] * x[2], x[2] * y[2]>>
FrMul(x, y) == <<x[1] * y[1], x[2] * y[2]>>
FrIsZero(x) == x[1] = 0

\* Series.sum(): the terms that are not NaN added up (0 when there are none)
RECURSIVE nansum(_, _)
nansum(index, series) ==
    IF index = {} THEN Fr(0, 1)
    ELSE LET k == CHOOSE k \in index : TRUE
         IN FrAdd(series[k], nansum(index \ {k}, series))

\* the rows of a stratum, the strata of a frame
metric_of(df, strat) ==
    LET in_strat(row) == row[2] = strat
        rows == SelectSeq(df, in_strat)
    IN [k \in DOMAIN rows |-> rows[k][1]]

strata_of(df) == {df[k][2] : k \in DOMAIN df}

squares(values) == [k \in DOMAIN values |-> values[k] * values[k]]

\* l.344-347: value_counts(normalize=True) over the strata of both groups
value_counts(a, b) ==
    [strat \in strata_of(a) \cup strata_of(b) |->
        Fr(Len(metric_of(a \o b, strat)), Len(a) + Len(b))]

\* l.307-315: groupby('strat').mean() times the weights; the product is NaN
\* for a stratum of the weights that the frame lacks, and sum() leaves it out
_calc_strat_mean(df, weights) ==
    LET strat_mean == [strat \in strata_of(df) |->
                          Fr(sum(metric_of(df, strat)), Len(metric_of(df, strat)))]
        not_nan == DOMAIN strat_mean \cap DOMAIN weights
    IN nansum(not_nan, [strat \in not_nan |-> FrMul(strat_mean[strat], weights[strat])])

\* l.317-325: as the mean, with groupby('strat').var() (ddof = 1), which is
\* NaN for a stratum of one row
_calc_strat_var(df, weights) ==
    LET has_var == {strat \in strata_of(df) : Len(metric_of(df, strat)) > 1}
        strat_var == [strat \in has_var |->
                         LET x == metric_of(df, strat)
                             n == Len(x)
                         IN Fr(n * sum(squares(x)) - sum(x) * sum(x), n * (n - 1))]
        not_nan == DOMAIN strat_var \cap DOMAIN weights
    IN nansum(not_nan, [strat \in not_nan |-> FrMul(strat_var[strat], weights[strat])])

\* l.327-361: indexing column 1 of an array of one dimension is an
\* IndexError; a zero std makes delta / std inf (p-value 0.0) or nan
_ttest_strat(metrics_strat_a_group, metrics_strat_b_group, lib) ==
    IF metrics_strat_a_group.ndim # 2 \/ metrics_strat_b_group.ndim # 2
    THEN Raise("IndexError")
    ELSE LET a == metrics_strat_a_group.rows
             b == metrics_strat_b_group.rows
             weights == value_counts(a, b)
             a_strat_mean == _calc_strat_mean(a, weights)
             b_strat_mean == _calc_strat_mean(b, weights)
             a_strat_var == _calc_strat_var(a, weights)
             b_strat_var == _calc_strat_var(b, weights)
             delta == FrSub(b_strat_mean, a_strat_mean)
             var == FrAdd(FrMul(a_strat_var, Fr(1, Len(a))),
                          FrMul(b_strat_var, Fr(1, Len(b))))
         IN [raised |-> "",
             delta |-> delta,
             var |-> var,
             pvalue |-> IF ~FrIsZero(var) THEN lib.pvalue
                        ELSE IF FrIsZero(delta) THEN nan ELSE Float(0)]

(***************************************************************************)
(* get_pvalue, l.35-72.  Its result records, besides the exception or the  *)
(* p-value, the routine the call ran (field ran; "get_pvalue" when the     *)
(* dispatch itself raised).                                                *)
(***************************************************************************)
\* scipy.stats.ttest_ind and scipy.stats.mannwhitneyu: the p-value is lib's,
\* a float on arrays of one dimension and an array with one p-value per
\* column on arrays of shape (n, 2) (both run along axis 0)
ttest_ind(a, b, lib) == [raised |-> "", pvalue |-> lib.pvalue]
mannwhitneyu(x, y, lib) == [raised |-> "", pvalue |-> lib.pvalue]

In(routine, result) ==
    IF Raised(result) THEN [raised |-> result.raised, ran |-> routine]
    ELSE [raised |-> "", ran |-> routine, pvalue |-> result.pvalue]

\* l.62-70: the bootstrap branch
bootstrap_pvalue(a, b, design, lib) ==
    LET generated == _generate_bootstrap_metrics(a, b, design, lib)
    IN IF Raised(generated) THEN generated
       ELSE _run_bootstrap(generated.bootstrap_metrics, generated.pe_metric, design)

\* (mutant: an unknown statistical_test runs the t-test)
get_pvalue_defaulting(metrics_strat_a_group, metrics_strat_b_group, design, lib) ==
    IF design.statistical_test = "utest"
    THEN In("mannwhitneyu", mannwhitneyu(metrics_strat_a_group, metrics_strat_b_group, lib))
    ELSE IF design.statistical_test = "bootstrap"
    THEN In("bootstrap",
            bootstrap_pvalue(metrics_strat_a_group, metrics_strat_b_group, design, lib))
    ELSE IF design.stratification = "off"
    THEN In("ttest_ind", ttest_ind(metrics_strat_a_group, metrics_strat_b_group, lib))
    ELSE IF design.stratification = "on"
    THEN In("_ttest_strat",
            _ttest_strat(metrics_strat_a_group, metrics_strat_b_group, lib))
    ELSE In("get_pvalue", Raise("ValueError"))

get_pvalue(metrics_strat_a_group, metrics_strat_b_group, design, lib) ==
    IF design.statistical_test = "ttest"
    THEN IF design.stratification = "off"
         THEN In("ttest_ind", ttest_ind(metrics_strat_a_group, metrics_strat_b_group, lib))
         ELSE IF design.stratification = "on"
         THEN In("_ttest_strat",
                 _ttest_strat(metrics_strat_a_group, metrics_strat_b_group, lib))
         ELSE In("get_pvalue", Raise("ValueError"))
    ELSE IF design.statistical_test = "utest"
    THEN In("mannwhitneyu", mannwhitneyu(metrics_strat_a_group, metrics_strat_b_group, lib))
    ELSE IF design.statistical_test = "bootstrap"
    THEN In("bootstrap",
            bootstrap_pvalue(metrics_strat_a_group, metrics_strat_b_group, design, lib))
    ELSE In("get_pvalue", Raise("ValueError"))

(***************************************************************************)
(* estimate_sample_size (l.74-98) and experiments_tools.get_mde (l.26-42). *)
(***************************************************************************)
\* (norm.ppf(1 - alpha / 2) + norm.ppf(1 - beta)) ** 2 in ten-thousandths,
\* for the default alpha and beta: (1.959964 + 1.281552) ** 2 = 10.5074
z_score(alpha, beta) ==
    CASE alpha = 50 /\ beta = 100 -> 105074

user_id_of(metrics) == {metrics[k][1] : k \in DOMAIN metrics}
metric_column(metrics) == [k \in DOMAIN metrics |-> metrics[k][2]]

\* np.ceil of the fraction num / den, den > 0
ceil(num, den) == -((-num) \div den)

\* l.74-98.  metrics: rows <<user_id, metric>>.  With n rows of sum S and sum
\* of squares Q and U users, ration * z_score * 2 * metric_var / epsilon ** 2
\* is  U * z_score * 2 * (n * Q - S * S) / (n * S * S * effect * effect).
\* A zero epsilon makes the quotient inf or nan, which int() refuses.
estimate_sample_size(metrics, design) ==
    LET n == Len(metrics)
        U == Cardinality(user_id_of(metrics))
        S == sum(metric_column(metrics))
        Q == sum(squares(metric_column(metrics)))
        numerator == U * z_score(design.alpha, design.beta) * 2 * (n * Q - S * S)
        denominator == n * S * S * design.effect * design.effect
    IN IF n = 0 THEN Raise("ZeroDivisionError")
       ELSE IF denominator = 0
       THEN IF numerator = 0 THEN Raise("ValueError") ELSE Raise("OverflowError")
       ELSE [raised |-> "", sample_size |-> ceil(numerator, denominator)]

\* experiments_tools.py, l.26-42, for alp = 0.05 and power = 0.9: the square
\* of the returned effect is z_score * 2 * sigma ** 2 / sample_size.  numpy
\* divides by zero to inf (nan for 0 / 0) and takes the root of a negative
\* number to nan; it raises nothing.
get_mde(sigma, sample_size, alp, power) ==
    LET total_sigma == 2 * sigma * sigma
        square == z_score(alp, 1000 - power) * total_sigma
    IN [raised |-> "",
        mde |-> IF sample_size = 0
                THEN IF square = 0 THEN [kind |-> "nan"] ELSE [kind |-> "inf"]
                ELSE IF sample_size < 0 /\ square > 0 THEN [kind |-> "nan"]
                ELSE [kind |-> "number",
                      square |-> IF sample_size > 0
                                 THEN Fr(square, 10000 * sample_size)
                                 ELSE Fr(0, 1)]]

(***************************************************************************)
(* _create_group_generator (l.100-120) and _estimate_errors (l.139-162).   *)
(***************************************************************************)
MaxIter == 2

\* the metrics table of the estimator: rows <<user_id, metric>>
Population == << <<1, 200>>, <<2, 400>>, <<3, 600>> >>

\* l.116-119: the metric values of the rows whose user_id is among user_ids
values_of(metrics, user_ids) ==
    LET isin(row) == row[1] \in user_ids
    IN Array1(metric_column(SelectSeq(metrics, isin)))

\* l.113-115: np.random.choice(user_ids, (2, sample_size), False) draws
\* 2 * sample_size different users; it raises when there are fewer
enough_users(metrics, sample_size) ==
    2 * sample_size <= Cardinality(user_id_of(metrics))

Groups(metrics, sample_size) ==
    {<<values_of(metrics, a_user_ids), values_of(metrics, b_user_ids)>> :
        <<a_user_ids, b_user_ids>> \in
            {pair \in (SUBSET user_id_of(metrics)) \X (SUBSET user_id_of(metrics)) :
                /\ Cardinality(pair[1]) = sample_size
                /\ Cardinality(pair[2]) = sample_size
                /\ pair[1] \cap pair[2] = {}}}

\* l.147-152: the effect added to group B
add_effect(b_metric, effect, effect_add_type) ==
    LET b_metric_mean == mean(b_metric.rows)
    IN IF effect_add_type = "all_const"
       THEN Array1([k \in DOMAIN b_metric.rows |->
                       b_metric.rows[k] + (b_metric_mean * effect) \div 100])
       ELSE Array1([k \in DOMAIN b_metric.rows |->
                       (b_metric.rows[k] * (100 + effect)) \div 100])

\* (mutant: the effect added before the first test, so that both p-values
\* are computed on the perturbed group B)
trial_effect_first(a_matric, b_metric, design, effect_add_type, lib_aa, lib_ab) ==
    LET with_effect == add_effect(b_metric, design.effect, effect_add_type)
        pvalue_aa == get_pvalue(a_matric, with_effect, design, lib_aa)
        pvalue_ab == get_pvalue(a_matric, with_effect, design, lib_ab)
    IN IF Raised(pvalue_aa) THEN Raise(pvalue_aa.raised)
       ELSE IF effect_add_type \notin {"all_const", "all_percent"}
       THEN Raise("ValueError")
       ELSE IF Raised(pvalue_ab) THEN Raise(pvalue_ab.raised)
       ELSE [raised |-> "", pvalue_aa |-> pvalue_aa.pvalue, pvalue_ab |-> pvalue_ab.pvalue,
             aa |-> <<a_matric, with_effect>>, ab |-> <<a_matric, with_effect>>]

\* l.143-157: one turn of the loop on the groups the generator yielded.
\* Fields aa and ab hold the arrays the first (l.145) and the second (l.154)
\* get_pvalue call received; get_pvalue writes to neither of its arrays.
trial(a_matric, b_metric, design, effect_add_type, lib_aa, lib_ab) ==
    LET pvalue_aa == get_pvalue(a_matric, b_metric, design, lib_aa)
        with_effect == add_effect(b_metric, design.effect, effect_add_type)
        pvalue_ab == get_pvalue(a_matric, with_effect, design, lib_ab)
    IN IF Raised(pvalue_aa) THEN Raise(pvalue_aa.raised)
       ELSE IF effect_add_type \notin {"all_const", "all_percent"}
       THEN Raise("ValueError")
       ELSE IF Raised(pvalue_ab) THEN Raise(pvalue_ab.raised)
       ELSE [raised |-> "", pvalue_aa |-> pvalue_aa.pvalue, pvalue_ab |-> pvalue_ab.pvalue,
             aa |-> <<a_matric, b_metric>>, ab |-> <<a_matric, with_effect>>]

\* comparisons of floats: every comparison with nan is False
less(x, alpha) == ~x.nan /\ x.v < alpha
greater_equal(x, alpha) == ~x.nan /\ x.v >= alpha

\* np.mean of an array of booleans: the fraction of True, nan when empty
mean_of(bools) ==
    IF bools = <<>> THEN nan
    ELSE Float(Fr(Cardinality({k \in DOMAIN bools : bools[k]}), Len(bools)))

\* l.159-160
first_type_error_of(pvalues, alpha) ==
    mean_of([k \in DOMAIN pvalues |-> less(pvalues[k], alpha)])

second_type_error_of(pvalues, alpha) ==
    mean_of([k \in DOMAIN pvalues |-> greater_equal(pvalues[k], alpha)])

(***************************************************************************)
(* The calls made on the statistics service.  The service keeps no state   *)
(* between calls, so a behaviour is one call, made on the initial state.   *)
(***************************************************************************)
allocator == <<buckets_count, bucket_salt, buckets, id2experiment, fresh, n_calls,
               added_experiments, experiments, answers, threads, serialized>>

InitStats ==
    /\ InitFresh(1, "")
    /\ NoEstimator
    /\ call = NoCall
    /\ ret = NoCall
    /\ n_calls = 0
    /\ added_experiments = <<>>
    /\ experiments = <<>>
    /\ answers = <<>>
    /\ threads = <<>>
    /\ serialized = TRUE

\* no call was made yet
Idle == pc = "idle" /\ call = NoCall

\* what scipy and numpy hand to a get_pvalue call under this design on
\* these groups: the bootstrap branch reads a summary of the statistics of
\* the resampled groups (none is computed when the call raises first: an
\* array of two dimensions, l.201, or an unknown aggregation, l.221), the
\* others a p-value, which is an array for ttest_ind (l.50-51) and
\* mannwhitneyu (l.59-60) on arrays of shape (n, 2)
Libs(design, a, b) ==
    IF design.statistical_test = "bootstrap"
    THEN IF /\ a.ndim = 1
            /\ b.ndim = 1
            /\ design.bootstrap_agg_func \in {"mean", "quantile 95"}
         THEN {[bootstrap_metrics |-> bm] :
                  bm \in SummariesOf(BootstrapStatistics(a.rows, b.rows,
                                                        design.bootstrap_agg_func))}
         ELSE {[bootstrap_metrics |-> [c_se |-> 0, q_lo |-> 0, q_hi |-> 0]]}
    ELSE IF /\ a.ndim = 2
            /\ b.ndim = 2
            /\ \/ design.statistical_test = "utest"
               \/ design.statistical_test = "ttest" /\ design.stratification = "off"
    THEN {[pvalue |-> p] : p \in PValueArrays}
    ELSE {[pvalue |-> p] : p \in PValues}

\* arrays of shape (n, 2), rows <<metric, strat>>, as the callers pass them
\* when stratification is 'on' (pages/6_Experiment.py, l.113-117)
StratRows == {<<0, 0>>, <<2, 0>>, <<0, 1>>, <<4, 1>>}
StratGroups ==
    {<<Array2(<<a1, a2>>), Array2(<<b1, b2>>)>> :
        a1 \in StratRows, a2 \in StratRows, b1 \in StratRows, b2 \in StratRows}

\* groups of two users each, as a table of four users or more yields them
PairGroups ==
    {<<Array1(a), Array1(b)>> : a, b \in {<<200, 400>>, <<400, 600>>}}

GroupsFor(design) ==
    IF design.stratification = "on"
    THEN StratGroups \cup Groups(Population, 1) \cup PairGroups
    ELSE Groups(Population, 1) \cup PairGroups

GetPvalue ==
    /\ Idle
    /\ \E design \in DesignsOf(1) :
       \E group \in GroupsFor(design) :
       \E lib \in Libs(design, group[1], group[2]) :
          /\ call' = [op |-> "get_pvalue", a |-> group[1], b |-> group[2],
                      design |-> design, lib |-> lib]
          /\ ret' = [op |-> "get_pvalue",
                     result |-> get_pvalue(group[1], group[2], design, lib)]
    /\ UNCHANGED est
    /\ UNCHANGED allocator

RunBootstrap ==
    /\ Idle
    /\ \E bootstrap_metrics \in BootstrapMetrics :
       \E pe_metric \in {-100, 0, 100} :
       \E bootstrap_ci_type \in CiTypes :
          LET design == Design("bootstrap", "off", bootstrap_ci_type, "mean", 1)
          IN /\ call' = [op |-> "_run_bootstrap",
                         bootstrap_metrics |-> bootstrap_metrics,
                         pe_metric |-> pe_metric, design |-> design]
             /\ ret' = [op |-> "_run_bootstrap",
                        result |-> _run_bootstrap(bootstrap_metrics, pe_metric, design)]
    /\ UNCHANGED est
    /\ UNCHANGED allocator

\* metrics tables of up to three rows <<user_id, metric>>
MetricsRows == {1, 2} \X {0, 1, 3}
MetricsTables ==
    {<<>>} \cup {<<r1>> : r1 \in MetricsRows}
           \cup {<<r1, r2>> : r1 \in MetricsRows, r2 \in MetricsRows}
           \cup {<<r1, r2, r3>> : r1 \in MetricsRows, r2 \in MetricsRows, r3 \in MetricsRows}

EstimateSampleSize ==
    /\ Idle
    /\ \E metrics \in MetricsTables :
          LET design == Design("ttest", "off", "normal", "mean", 1)
          IN /\ call' = [op |-> "estimate_sample_size", metrics |-> metrics,
                         design |-> design]
             /\ ret' = [op |-> "estimate_sample_size",
                        result |-> estimate_sample_size(metrics, design)]
    /\ UNCHANGED est
    /\ UNCHANGED allocator

GetMde ==
    /\ Idle
    /\ \E sigma \in -1..2 :
       \E sample_size \in -1..2 :
          /\ call' = [op |-> "get_mde", sigma |-> sigma, sample_size |-> sample_size]
          /\ ret' = [op |-> "get_mde", result |-> get_mde(sigma, sample_size, 50, 900)]
    /\ UNCHANGED est
    /\ UNCHANGED allocator

EffectAddTypes == {"all_const", "all_percent", "none"}

\* l.164-187: estimate_errors builds the generator over range(n_iter) and
\* enters _estimate_errors with two empty lists
EstimateErrors ==
    /\ Idle
    /\ \E design \in DesignsOf(1) \cup DesignsOf(2) :
       \E effect_add_type \in EffectAddTypes :
       \E n_iter \in 0..MaxIter :
          call' = [op |-> "estimate_errors", metrics |-> Population, design |-> design,
                   effect_add_type |-> effect_add_type, n_iter |-> n_iter]
    /\ ret' = NoCall
    /\ pc' = "loop"
    /\ group_generator' = call'.n_iter
    /\ pvalues_aa' = <<>>
    /\ pvalues_ab' = <<>>
    /\ trials' = <<>>
    /\ tested' = NoTrial
    /\ UNCHANGED allocator

\* the call ends with an exception
RaiseFromLoop(exception) ==
    /\ pc' = "raised"
    /\ ret' = [op |-> "estimate_errors", raised |-> exception]
    /\ UNCHANGED <<call, group_generator, pvalues_aa, pvalues_ab, trials, tested>>

\* l.157: pvalues_ab.append(pvalue_ab)
put_ab(pvalues, pvalue) == Append(pvalues, pvalue)

\* l.143-157: the generator yields the next pair of groups, drawn at random,
\* and the loop body runs on it
Trial ==
    /\ pc = "loop"
    /\ group_generator > 0
    /\ IF ~enough_users(call.metrics, call.design.sample_size)
       THEN RaiseFromLoop("ValueError")
       ELSE \E group \in Groups(call.metrics, call.design.sample_size) :
            \E lib_aa \in Libs(call.design, group[1], group[2]) :
            \E lib_ab \in Libs(call.design, group[1],
                               add_effect(group[2], call.design.effect,
                                          call.effect_add_type)) :
               LET t == trial(group[1], group[2], call.design, call.effect_add_type,
                              lib_aa, lib_ab)
               IN IF Raised(t)
                  THEN RaiseFromLoop(t.raised)
                  ELSE /\ pvalues_aa' = Append(pvalues_aa, t.pvalue_aa)
                       /\ pvalues_ab' = put_ab(pvalues_ab, t.pvalue_ab)
                       /\ trials' = Append(trials, [pvalue_aa |-> t.pvalue_aa,
                                                    pvalue_ab |-> t.pvalue_ab])
                       /\ group_generator' = group_generator - 1
                       /\ UNCHANGED <<call, ret, pc, tested>>
    /\ UNCHANGED allocator

\* l.143-157 again, the turn of the loop with the arrays of its two
\* get_pvalue calls kept in tested
TrialTested ==
    /\ pc = "loop"
    /\ group_generator > 0
    /\ IF ~enough_users(call.metrics, call.design.sample_size)
       THEN RaiseFromLoop("ValueError")
       ELSE \E group \in Groups(call.metrics, call.design.sample_size) :
            \E lib_aa \in Libs(call.design, group[1], group[2]) :
            \E lib_ab \in Libs(call.design, group[1],
                               add_effect(group[2], call.design.effect,
                                          call.effect_add_type)) :
               LET t == trial(group[1], group[2], call.design, call.effect_add_type,
                              lib_aa, lib_ab)
               IN IF Raised(t)
                  THEN RaiseFromLoop(t.raised)
                  ELSE /\ pvalues_aa' = Append(pvalues_aa, t.pvalue_aa)
                       /\ pvalues_ab' = put_ab(pvalues_ab, t.pvalue_ab)
                       /\ trials' = Append(trials, [pvalue_aa |-> t.pvalue_aa,
                                                    pvalue_ab |-> t.pvalue_ab])
                       /\ tested' = [aa |-> t.aa, ab |-> t.ab]
                       /\ group_generator' = group_generator - 1
                       /\ UNCHANGED <<call, ret, pc>>
    /\ UNCHANGED allocator

\* l.159-162: the generator is exhausted; the rates and the return
Return ==
    /\ pc = "loop"
    /\ group_generator = 0
    /\ pc' = "done"
    /\ ret' = [op |-> "estimate_errors",
               raised |-> "",
               pvalues_aa |-> pvalues_aa,
               pvalues_ab |-> pvalues_ab,
               first_type_error |-> first_type_error_of(pvalues_aa, call.design.alpha),
               second_type_error |-> second_type_error_of(pvalues_ab, call.design.alpha)]
    /\ UNCHANGED <<call, group_generator, pvalues_aa, pvalues_ab, trials, tested>>
    /\ UNCHANGED allocator

NextStats ==
    \/ GetPvalue
    \/ RunBootstrap
    \/ EstimateSampleSize
    \/ GetMde
    \/ EstimateErrors
    \/ Trial
    \/ Return

SpecStats == InitStats /\ [][NextStats]_vars

\* estimate_errors alone, each turn of its loop keeping the arrays it tested
NextTested ==
    \/ EstimateErrors
    \/ TrialTested
    \/ Return

SpecStatsTested == InitStats /\ [][NextTested]_vars

(***************************************************************************)
(* Properties of the statistics service.                                   *)
(***************************************************************************)
\* C13: get_pvalue dispatches on design.statistical_test: 'ttest' with
\* stratification 'off' runs the t-test and returns its p-value, 'ttest' with
\* stratification 'on' runs the stratified test, 'utest' runs the
\* Mann-Whitney test and returns its p-value, 'bootstrap' runs the bootstrap
\* and what it returns is 0 or 1; any other statistical_test raises
\* ValueError in get_pvalue itself and no p-value is returned.
C13_GetPvalueDispatch ==
    ret.op = "get_pvalue"
        => LET design == call.design
               result == ret.result
           IN /\ (design.statistical_test = "ttest" /\ design.stratification = "off")
                    => result = [raised |-> "", ran |-> "ttest_ind",
                                 pvalue |-> call.lib.pvalue]
              /\ (design.statistical_test = "ttest" /\ design.stratification = "on")
                    => result.ran = "_ttest_strat"
              /\ design.statistical_test = "utest"
                    => result = [raised |-> "", ran |-> "mannwhitneyu",
                                 pvalue |-> call.lib.pvalue]
              /\ design.statistical_test = "bootstrap"
                    => /\ result.ran = "bootstrap"
                       /\ result.raised = "" => result.pvalue \in {Float(0), Float(1000)}
              /\ design.statistical_test \notin {"ttest", "utest", "bootstrap"}
                    => result = [raised |-> "ValueError", ran |-> "get_pvalue"]

\* a call with a statistical_test that is none of the three
C13_Witness ==
    /\ ret.op = "get_pvalue"
    /\ call.design.statistical_test = "ztest"
    /\ call.design.stratification = "off"
    /\ ret.result.raised = "ValueError"

\* C14: a design.stratification that is neither 'off' nor 'on' makes
\* get_pvalue fail with ValueError, whatever design.statistical_test is.
C14_UnknownStratificationFails ==
    (ret.op = "get_pvalue" /\ call.design.stratification \notin {"off", "on"})
        => ret.result.raised = "ValueError"

\* C16: the pseudo p-value _run_bootstrap returns with the interval
\* (left, right) is 1.0 if left <= 0 <= right and 0.0 otherwise, the cases
\* left = 0 and right = 0 included.
C16_PseudoPvalueContainsZero ==
    (ret.op = "_run_bootstrap" /\ ret.result.raised = "")
        => LET left == ret.result.ci[1]
               right == ret.result.ci[2]
           IN ret.result.pvalue =
                 IF left <= 0 /\ 0 <= right THEN Float(1000) ELSE Float(0)

Finished == call.op = "estimate_errors" /\ pc \in {"done", "raised"}

\* C15: with an effect_add_type other than 'all_const' and 'all_percent',
\* estimate_errors ends with ValueError and returns no result, whatever
\* n_iter is (0 included).
C15_InvalidEffectAddTypeFails ==
    (Finished /\ call.effect_add_type \notin {"all_const", "all_percent"})
        => pc = "raised" /\ ret.raised = "ValueError"

\* the number of p-values of a list that are below alpha, and not below it
Below(pvalues, alpha) ==
    Cardinality({k \in DOMAIN pvalues : ~pvalues[k].nan /\ pvalues[k].v < alpha})
NotBelow(pvalues, alpha) ==
    Cardinality({k \in DOMAIN pvalues : ~pvalues[k].nan /\ ~(pvalues[k].v < alpha)})

\* a float that is the fraction count / total and lies in [0, 1]
IsRate(x, count, total) ==
    /\ ~x.nan
    /\ x.v[2] > 0
    /\ x.v[1] * total = count * x.v[2]
    /\ 0 <= x.v[1] /\ x.v[1] <= x.v[2]

\* C17: the first_type_error estimate_errors returns (here: on a valid
\* effect_add_type) is the fraction of trials with pvalue_AA < alpha
\* (strictly), the second_type_error the fraction of trials with
\* pvalue_AB >= alpha, and both lie in [0, 1].
C17_RatesAreFractions ==
    (/\ call.op = "estimate_errors"
     /\ call.effect_add_type \in {"all_const", "all_percent"}
     /\ pc = "done")
        => /\ IsRate(ret.first_type_error,
                     Below(ret.pvalues_aa, call.design.alpha), call.n_iter)
           /\ IsRate(ret.second_type_error,
                     NotBelow(ret.pvalues_ab, call.design.alpha), call.n_iter)

\* the lists a finished call returned have one entry for each of the n_iter
\* trials, and the i-th entries of both are the p-values of the i-th trial
ReturnedEachTrial ==
    /\ pc = "done"
    /\ Len(trials) = call.n_iter
    /\ Len(ret.pvalues_aa) = call.n_iter
    /\ Len(ret.pvalues_ab) = call.n_iter
    /\ \A i \in 1..call.n_iter :
          /\ ret.pvalues_aa[i] = trials[i].pvalue_aa
          /\ ret.pvalues_ab[i] = trials[i].pvalue_ab

\* a Design whose fields lie in their documented domains
DocumentedDesign(design) ==
    /\ design.statistical_test \in {"ttest", "utest", "bootstrap"}
    /\ design.stratification \in {"off", "on"}
    /\ design.bootstrap_ci_type \in {"normal", "percentile", "pivotal"}
    /\ design.bootstrap_agg_func \in {"mean", "quantile 95"}

\* C18: with a valid effect_add_type, a call of estimate_errors ends by
\* returning two lists of n_iter p-values, the i-th entries of which come
\* from the i-th trial.  Stated for the calls the contract is about: a
\* Design of the documented domains and metrics that hold the
\* 2 * sample_size different users of a trial.
C18_ValidCallReturnsEachTrial ==
    (/\ Finished
     /\ call.effect_add_type \in {"all_const", "all_percent"}
     /\ DocumentedDesign(call.design)
     /\ enough_users(call.metrics, call.design.sample_size))
        => ReturnedEachTrial

\* a stratum of the pooled sample is absent from one of the two groups
StratumMissing(a, b) ==
    {a.rows[k][2] : k \in DOMAIN a.rows} # {b.rows[k][2] : k \in DOMAIN b.rows}

\* C19: in the stratified test, a stratum that is present in the pooled
\* sample and absent from one of the two groups makes get_pvalue fail; no
\* p-value is returned.
C19_MissingStratumFails ==
    (/\ ret.op = "get_pvalue"
     /\ call.design.statistical_test = "ttest"
     /\ call.design.stratification = "on"
     /\ call.a.ndim = 2
     /\ call.b.ndim = 2
     /\ StratumMissing(call.a, call.b))
        => ret.result.raised # ""

\* all the metric values of the table are equal: its variance is 0
ZeroVariance(metrics) ==
    \A j, k \in DOMAIN metrics : metrics[j][2] = metrics[k][2]

ZeroMean(metrics) ==
    sum([k \in DOMAIN metrics |-> metrics[k][2]]) = 0

\* C20: estimate_sample_size fails when the variance of the metric is <= 0
\* or its mean is 0, and get_mde fails when sigma ** 2 <= 0 or
\* sample_size <= 0; neither returns a number then.
C20_DegenerateInputFails ==
    /\ (/\ ret.op = "estimate_sample_size"
        /\ call.metrics # <<>>
        /\ ZeroVariance(call.metrics) \/ ZeroMean(call.metrics))
          => ret.result.raised # ""
    /\ (/\ ret.op = "get_mde"
        /\ call.sigma = 0 \/ call.sample_size <= 0)
          => ret.result.raised # ""

(***************************************************************************)
(* C21: the randomized procedures.  Neither _create_group_generator nor    *)
(* _generate_bootstrap_metrics nor their callers take a seed: their        *)
(* arguments are those of the call record, and what np.random.choice draws *)
(* (here: lib) is not determined by them.                                  *)
(***************************************************************************)
\* a sample with two different values: its resamples differ from one another
Varied(data) == \E j, k \in DOMAIN data.rows : data.rows[j] # data.rows[k]

\* C21: the output of a randomized procedure is determined by its arguments
\* (a seed among them): on the same groups and the same design, every run
\* of _generate_bootstrap_metrics returns the same bootstrap statistics and
\* every run of get_pvalue with 'bootstrap' returns the same result as this
\* run did.
C21_SameArgumentsSameResult ==
    (/\ ret.op = "get_pvalue"
     /\ call.design.statistical_test = "bootstrap"
     /\ Varied(call.a)
     /\ Varied(call.b))
        => \A lib \in Libs(call.design, call.a, call.b) :
              /\ _generate_bootstrap_metrics(call.a, call.b, call.design, lib)
                    = _generate_bootstrap_metrics(call.a, call.b, call.design, call.lib)
              /\ get_pvalue(call.a, call.b, call.design, lib) = ret.result

\* C22: a bucket is an ordered set: after any sequence of add_experiment
\* calls, a call for an id that was already accepted included, no bucket
\* holds the same experiment id at two positions.
C22_NoDuplicateInBucket ==
    \A b \in DOMAIN buckets : \A j, k \in DOMAIN buckets[b] :
        j # k => buckets[b][j] # buckets[b][k]

\* an accepted experiment hosted in this bucket lists the id in its conflicts
ObjectingOccupant(bucket, id) ==
    \E i \in DOMAIN added_experiments :
        /\ added_experiments[i].id_exp # id
        /\ Hosts(bucket, added_experiments[i].id_exp)
        /\ \E c \in DOMAIN added_experiments[i].conflicts :
              added_experiments[i].conflicts[c] = id

\* C23: the conflict test of add_experiment is one-directional.  In every
\* call the buckets counted as available are exactly those hosting none of
\* the ids in the new experiment's own conflicts: the call succeeds iff there
\* are at least buckets_count of them, only such buckets receive the id, and
\* when exactly buckets_count are available each of them receives it, also
\* one whose occupant lists the new id in its conflicts.
C23_OneDirectionalConflictCheck ==
    [][IsAddStep
        => LET e == call'.experiment
               eligible == EligibleBuckets(buckets, e)
           IN /\ ret'.success = (Cardinality(eligible) >= e.buckets_count)
              /\ \A k \in DOMAIN buckets : buckets'[k] # buckets[k] => k \in eligible
              /\ Cardinality(eligible) = e.buckets_count
                    => \A k \in eligible : buckets'[k] = Append(buckets[k], e.id_exp)]_vars

\* an experiment was accepted into a bucket of a fresh service in which an
\* accepted occupant lists the new id in its conflicts, the new experiment
\* listing none of the occupants in its own
C23_Witness ==
    /\ fresh
    /\ call.op = "add_experiment"
    /\ ret.op = "add_experiment"
    /\ ret.success = TRUE
    /\ call.experiment.buckets_count >= 1
    /\ \E b \in DOMAIN buckets :
          /\ buckets[b] # <<>>
          /\ buckets[b][Len(buckets[b])] = call.experiment.id_exp
          /\ ObjectingOccupant(buckets[b], call.experiment.id_exp)
          /\ \A k \in 1..(Len(buckets[b]) - 1) :
                \A c \in DOMAIN call.experiment.conflicts :
                    buckets[b][k] # call.experiment.conflicts[c]

\* group B after the effect was added once to each of its values: for
\* 'all_const' the mean of b times effect / 100, for 'all_percent' the factor
\* 1 + effect / 100
PerturbedOnce(b, with_effect, effect, effect_add_type) ==
    /\ with_effect.ndim = b.ndim
    /\ DOMAIN with_effect.rows = DOMAIN b.rows
    /\ \A k \in DOMAIN b.rows :
          IF effect_add_type = "all_const"
          THEN 100 * Len(b.rows) * (with_effect.rows[k] - b.rows[k]) = effect * sum(b.rows)
          ELSE 100 * with_effect.rows[k] = (100 + effect) * b.rows[k]

\* C24: in each turn of the loop of _estimate_errors, the first get_pvalue
\* call (pvalue_aa) receives the two groups as the generator drew them from
\* the metrics, and the second (pvalue_ab) receives the same group A and
\* group B with the effect added exactly once, computed for 'all_const' from
\* the mean of the group B the first call received.
C24_TrialStepsInOrder ==
    (call.op = "estimate_errors" /\ trials # <<>>)
        => /\ tested.aa \in Groups(call.metrics, call.design.sample_size)
           /\ tested.ab[1] = tested.aa[1]
           /\ PerturbedOnce(tested.aa[2], tested.ab[2], call.design.effect,
                            call.effect_add_type)

\* a call that returned after two trials with 'all_const': the second test
\* of the last trial saw group B moved by 5% of its mean, the first did not
C24_Witness ==
    /\ call.op = "estimate_errors"
    /\ pc = "done"
    /\ call.n_iter = 2
    /\ Len(ret.pvalues_ab) = 2
    /\ call.effect_add_type = "all_const"
    /\ tested.aa[2].rows = <<400>>
    /\ tested.ab[2].rows = <<420>>
    /\ tested.aa[1].rows = <<600>>

\* the experiment lists the id in its conflicts
Lists(experiment, id) ==
    \E c \in DOMAIN experiment.conflicts : experiment.conflicts[c] = id

\* the accepted experiments have unique ids, none lists its own id, and
\* their conflicts are declared on both sides
DeclaredSymmetrically(exps) ==
    \A i, j \in DOMAIN exps :
        /\ exps[i].id_exp = exps[j].id_exp => exps[i] = exps[j]
        /\ ~Lists(exps[i], exps[i].id_exp)
        /\ Lists(exps[i], exps[j].id_exp) => Lists(exps[j], exps[i].id_exp)

\* C25: on a fresh service whose calls are serialized, as long as the
\* experiments accepted have unique ids, none lists itself and conflicts are
\* declared symmetrically, no bucket hosts two experiments one of which lists
\* the other.
C25_SymmetricConflictsKeptApart ==
    (fresh /\ DeclaredSymmetrically(added_experiments))
        => \A b \in DOMAIN buckets : \A i, j \in DOMAIN added_experiments :
              (/\ Hosts(buckets[b], added_experiments[i].id_exp)
               /\ Hosts(buckets[b], added_experiments[j].id_exp))
                  => ~Lists(added_experiments[i], added_experiments[j].id_exp)

\* two experiments that list each other were both accepted and are hosted,
\* the second of them by the last call, into a bucket that does not host the
\* first
C25_Witness ==
    /\ fresh
    /\ DeclaredSymmetrically(added_experiments)
    /\ \E i, j \in DOMAIN added_experiments :
          /\ MutualConflict(added_experiments[i], added_experiments[j])
          /\ HostingBuckets(buckets, added_experiments[i].id_exp) # {}
          /\ HostingBuckets(buckets, added_experiments[j].id_exp) # {}
          /\ call.op = "add_experiment"
          /\ call.experiment = added_experiments[i]
          /\ ret.op = "add_experiment"
          /\ ret.success = TRUE
          /\ i = 2
          /\ Len(added_experiments) = 2

\* two calls that ask for the same number of buckets with the same conflicts
Like(e1, e2) ==
    e1.buckets_count = e2.buckets_count /\ e1.conflicts = e2.conflicts

\* C26: rejection is permanent.  In any sequence of calls made on a fresh
\* service, once a call has returned success = False every later
\* call with the same buckets_count and the same conflicts returns
\* success = False too, whatever was added in between.
C26_RejectionIsPermanent ==
    \A i, j \in DOMAIN answers :
        (i < j /\ Like(experiments[i], experiments[j]) /\ answers[i] = FALSE)
            => answers[j] = FALSE

\* an experiment was refused, another one was accepted after that, and the
\* first was then submitted again and refused again
C26_Witness ==
    \E i, k, j \in DOMAIN answers :
        /\ i < k
        /\ k < j
        /\ Like(experiments[i], experiments[j])
        /\ answers[i] = FALSE
        /\ answers[k] = TRUE
        /\ experiments[k].buckets_count >= 1
        /\ answers[j] = FALSE

\* the same under any calls on any service of the model: a refusal of a call
\* is followed by refusals only of the calls like it
RejectionStaysUnderAnyCalls ==
    \A experiment \in Experiments :
        []((/\ call.op = "add_experiment"
            /\ Like(call.experiment, experiment)
            /\ ret.success = FALSE)
              => []((call.op = "add_experiment" /\ Like(call.experiment, experiment))
                       => ret.success = FALSE))

\* C27: acceptance depends on the order of submission.  Experiments 1 and 4
\* of the test, submitted to a fresh service of 4 buckets in either order:
\* the one submitted first is accepted and the other is refused, so the two
\* orders end with different sets of accepted experiments ({1} for 1 then 4,
\* {4} for 4 then 1).
C27_OrderChangesAccepted ==
    (/\ Len(experiments) = 2
     /\ SetOf(experiments) = {TestExperiments[1], TestExperiments[4]}
     /\ n_calls = 2)
        => /\ answers = <<TRUE, FALSE>>
           /\ added_experiments = <<experiments[1]>>
           /\ SetOf(added_experiments) # {experiments[2]}

\* 4 then 1: experiment 4 holds one bucket, and experiment 1, which needs all
\* four and lists 4, was refused
C27_Witness ==
    /\ experiments = <<TestExperiments[4], TestExperiments[1]>>
    /\ n_calls = 2
    /\ added_experiments = <<TestExperiments[4]>>
    /\ answers = <<TRUE, FALSE>>
    /\ buckets = << <<4>>, <<>>, <<>>, <<>> >>

\* the number of id entries over all buckets
RECURSIVE TotalLoad(_)
TotalLoad(bs) == IF bs = <<>> THEN 0 ELSE Len(bs[1]) + TotalLoad(Tail(bs))

\* the sum of buckets_count over the accepted calls
RECURSIVE AcceptedCount(_)
AcceptedCount(exps) ==
    IF exps = <<>> THEN 0 ELSE exps[1].buckets_count + AcceptedCount(Tail(exps))

\* C28: load conservation.  On a service constructed fresh, the number of id
\* entries over all buckets equals the sum of buckets_count over the calls
\* that returned success = True; each accepted call adds exactly
\* buckets_count entries and each refused call adds none.
C28_LoadConservation ==
    /\ [](fresh => TotalLoad(buckets) = AcceptedCount(added_experiments))
    /\ [][IsAddStep
            => TotalLoad(buckets') - TotalLoad(buckets)
                  = IF ret'.success THEN call'.experiment.buckets_count ELSE 0]_vars

\* two calls on two fresh buckets: an experiment accepted with fewer
\* buckets than were available, holding the one entry of the table, and an
\* experiment of another id that asked for both buckets and was refused
C28_Witness ==
    /\ fresh
    /\ buckets_count = 2
    /\ n_calls = 2
    /\ Len(added_experiments) = 1
    /\ added_experiments[1].buckets_count = 1
    /\ call.op = "add_experiment"
    /\ call.experiment.id_exp # added_experiments[1].id_exp
    /\ call.experiment.buckets_count = 2
    /\ TotalLoad(buckets) = 1
    /\ ret.op = "add_experiment"
    /\ ret.success = FALSE

\* C29: a user's bucket_id depends only on user_id, the bucket salt and
\* buckets_count.  Whenever process_user returns, bucket_id is the digest of
\* user_id + bucket_salt modulo buckets_count; and no add_experiment call,
\* accepted or refused, changes the salt or the count that value is computed
\* from, nor the bucket_id that process_user returns for a user for whom it
\* returns before and after the call.
C29_BucketIdUnaffectedByAdds ==
    /\ []((ret.op = "process_user" /\ ret.result.raised = "")
            => ret.result.bucket_id = md5_int(call.user_id \o bucket_salt) % buckets_count)
    /\ [][IsAddStep
            => \A user_id \in UserIds :
                  LET before == process_user(buckets, bucket_salt, buckets_count,
                                             id2experiment, user_id)
                      after == process_user(buckets', bucket_salt', buckets_count',
                                            id2experiment', user_id)
                  IN /\ bucket_salt' = bucket_salt
                     /\ buckets_count' = buckets_count
                     /\ (before.raised = "" /\ after.raised = "")
                           => after.bucket_id = before.bucket_id]_vars

\* on a fresh service of two buckets, after experiments were accepted into
\* bucket 0 and into no other, process_user returned bucket 1 for user "1"
\* (its digest 2011 is odd)
C29_Witness ==
    /\ fresh
    /\ buckets_count = 2
    /\ Len(added_experiments) = 2
    /\ Len(buckets[1]) = 2
    /\ buckets[2] = <<>>
    /\ ret.op = "process_user"
    /\ call.user_id = "1"
    /\ ret.result.raised = ""
    /\ ret.result.bucket_id = 1

\* the buckets that received the id in this add step
Chosen == {k \in DOMAIN buckets : buckets'[k] # buckets[k]}

\* C30: bucket selection is deterministic, ties broken by lowest index.  In
\* every accepted call each chosen bucket was, before the call, more loaded
\* than every available bucket left out, or equally loaded and of smaller
\* index; the new table is therefore the one table determined by the prior
\* table and the experiment: the id appended to the first buckets_count
\* available buckets in the order of decreasing load and increasing index.
C30_TiesByLowestIndex ==
    [][(IsAddStep /\ ret'.success)
        => LET e == call'.experiment
               eligible == EligibleBuckets(buckets, e)
               before(k, j) == \/ Len(buckets[k]) > Len(buckets[j])
                               \/ Len(buckets[k]) = Len(buckets[j]) /\ k < j
               first == {k \in eligible :
                           Cardinality({j \in eligible : before(j, k)}) < e.buckets_count}
           IN /\ Chosen \subseteq eligible
              /\ \A k \in Chosen : \A j \in eligible \ Chosen : before(k, j)
              /\ buckets' = [k \in DOMAIN buckets |->
                               IF k \in first THEN Append(buckets[k], e.id_exp)
                               ELSE buckets[k]]]_vars

\* an accepted call that had two available buckets of equal load 1 and
\* needed one: the id went to bucket 0
C30_Witness ==
    /\ fresh
    /\ buckets_count = 2
    /\ call.op = "add_experiment"
    /\ ret.op = "add_experiment"
    /\ ret.success = TRUE
    /\ call.experiment.buckets_count = 1
    /\ call.experiment.conflicts = <<>>
    /\ Len(buckets[1]) = 2
    /\ Len(buckets[2]) = 1
    /\ buckets[1][2] = call.experiment.id_exp
    /\ buckets[1][1] # call.experiment.id_exp

====
